---- MODULE Spec2Model ----
(***************************************************************************)
(* The AuthManager of src/AuthContext.tsx: a registry of authentication    *)
(* providers keyed by type, the set of types whose registration is still   *)
(* initializing, the active provider and the list of subscribers.          *)
(*                                                                         *)
(* Every method of the manager runs synchronously up to its only           *)
(* suspension point, the await of the validation callback in activate, so  *)
(* each action below is one synchronous run of the code: a call up to its  *)
(* return or its await, or the tail of activate after the await.           *)
(***************************************************************************)
EXTENDS Integers, Sequences, FiniteSets, TLC

VARIABLES
  providers,      \* Map<string, AuthProvider>, as its set of <<key, value>> entries
  listeners,      \* Dispatch<AuthProvider>[]
  initializing,   \* Set<string>
  activeProvider, \* AuthProvider, undefined until first assigned
  pending,        \* activate calls suspended at `await validation(...)`
  handles,        \* types whose {setup, clear} closures have been handed out
  unsubs,         \* callbacks whose unsubscribe closure has been handed out
  notified,       \* listener invocations made by the last step, in order
  last            \* the last step: operation, argument and outcome

vars == <<providers, listeners, initializing, activeProvider, pending,
          handles, unsubs, notified, last>>

(***************************************************************************)
(* Bounds and input sets.                                                  *)
(***************************************************************************)
MaxListeners == 3
MaxPending == 1

Undefined == "undefined"
Null == "null"
NoCall == "-"

Types == {"guest", "sso"}
AuthProviders == {"A", "B"}

\* A plain listener (a React setState), a listener that subscribes NewCallback
\* when it is invoked, and the callback it subscribes.
PlainCallback == "l1"
SubscribingCallback == "lSub"
NewCallback == "lNew"
Callbacks == {PlainCallback, SubscribingCallback, NewCallback}

\* A listener that calls its own unsubscribe function when it is invoked.
UnsubscribingCallback == "lOff"
OtherCallback == "l2"
UnsubscribingCallbacks == {UnsubscribingCallback, PlainCallback, OtherCallback}

\* JavaScript truthiness of a value of activeProvider.
Truthy(x) == x \in AuthProviders

(***************************************************************************)
(* Map and Array primitives, as the code uses them.                        *)
(***************************************************************************)
has(m, k) == \E e \in m : e[1] = k

\* Mutant: an insertion that keeps the entry the key already has.
mapSetKeepsOld(m, k, v) == m \cup {<<k, v>>}

mapSet(m, k, v) == {e \in m : e[1] # k} \cup {<<k, v>>}

\* Mutant: a deletion that leaves the map as it was.
mapDeleteKeeps(m, k) == m

mapDelete(m, k) == {e \in m : e[1] # k}

size(s) == Cardinality(s)

\* Array.prototype.indexOf: the 0-based index of the first occurrence, or -1.
indexOf(ls, x) ==
  IF \E i \in 1..Len(ls) : ls[i] = x
  THEN (CHOOSE i \in 1..Len(ls) : ls[i] = x /\ \A j \in 1..(i - 1) : ls[j] # x) - 1
  ELSE -1

\* Array.prototype.splice(idx) with no deleteCount: removes every element
\* from the 0-based index idx to the end.
splice(ls, idx) == SubSeq(ls, 1, idx)

push(ls, x) == Append(ls, x)

(***************************************************************************)
(* get and getActive.                                                      *)
(***************************************************************************)
get(type) ==
  IF has(providers, type)
  THEN (CHOOSE e \in providers : e[1] = type)[2]
  ELSE Undefined

\* Mutant: getActive without the check of the initializing set.
getActiveIgnoresInitializing ==
  IF Truthy(activeProvider) THEN activeProvider
  ELSE IF size(providers) = 0 THEN Undefined
  ELSE Null

\* Mutant: getActive with ?? in place of ||, so a committed null is returned
\* as it is.
getActiveNullish ==
  IF activeProvider # Undefined THEN activeProvider
  ELSE IF size(providers) = 0 \/ size(initializing) # 0 THEN Undefined
  ELSE Null

getActive ==
  IF Truthy(activeProvider) THEN activeProvider
  ELSE IF size(providers) = 0 \/ size(initializing) # 0 THEN Undefined
  ELSE Null

(***************************************************************************)
(* subscribe and the closure it returns, on the list alone.                *)
(***************************************************************************)
subscribe(ls, dispatch) == push(ls, dispatch)

unsubscribe(ls, dispatch) ==
  LET idx == indexOf(ls, dispatch)
  IN  IF idx >= 0 THEN splice(ls, idx) ELSE ls

\* The body of a listener: what invoking it does to the subscriber list.
listener(cb, ls) ==
  IF cb = SubscribingCallback THEN subscribe(ls, NewCallback)
  ELSE IF cb = UnsubscribingCallback THEN unsubscribe(ls, cb)
  ELSE ls

(***************************************************************************)
(* this.listeners.forEach(l => l(provider)): the length is read once, each *)
(* index below it is visited if the live array still has it, and the       *)
(* element is read from the live array. A log entry is the listener, the   *)
(* value it was passed and the activeProvider it could read at that time.  *)
(***************************************************************************)
\* Mutant: a loop that reads the length of the live array at every turn.
RECURSIVE forEachLive(_, _, _, _, _, _)
forEachLive(k, len, ls, log, p, seen) ==
  IF k > Len(ls) THEN [ls |-> ls, log |-> log]
  ELSE forEachLive(k + 1, len, listener(ls[k], ls),
                   Append(log, <<ls[k], p, seen>>), p, seen)

RECURSIVE forEach(_, _, _, _, _, _)
forEach(k, len, ls, log, p, seen) ==
  IF k > len THEN [ls |-> ls, log |-> log]
  ELSE IF k > Len(ls) THEN forEach(k + 1, len, ls, log, p, seen)
  ELSE forEach(k + 1, len, listener(ls[k], ls),
               Append(log, <<ls[k], p, seen>>), p, seen)

\* Mutant: the dispatch runs before the assignment, so a listener still
\* reads the previous activeProvider.
commitAfterDispatch(p, a, ls) ==
  LET d == forEach(1, Len(ls), ls, <<>>, p, a)
  IN  [active |-> p, ls |-> d.ls, log |-> d.log]

\* Lines 47-48: the assignment of p over the previous value a, then the
\* dispatch.
commit(p, a, ls) ==
  LET active == p
      d == forEach(1, Len(ls), ls, <<>>, p, active)
  IN  [active |-> active, ls |-> d.ls, log |-> d.log]

\* Mutant: a falsy provider is never taken to be the active one.
sameProviderTruthy(a, p) == Truthy(p) /\ a = p

\* Line 40.
sameProvider(a, p) == a = p

\* activate up to its return or its await. The result is the manager's next
\* activeProvider and listeners, the call left suspended (if any), the
\* listener invocations made, the outcome and whether validation was invoked.
activate(p, hasValidation, a, ls) ==
  IF sameProvider(a, p)
  THEN [active |-> a, ls |-> ls, log |-> <<>>, res |-> "noop",
        suspended |-> FALSE, vcalled |-> FALSE]
  ELSE IF hasValidation
  THEN IF Truthy(p)
       THEN [active |-> a, ls |-> ls, log |-> <<>>, res |-> "pending",
             suspended |-> TRUE, vcalled |-> TRUE]
       \* provider.getProfile() on null throws inside the async function
       ELSE [active |-> a, ls |-> ls, log |-> <<>>, res |-> "rejected",
             suspended |-> FALSE, vcalled |-> FALSE]
  ELSE LET c == commit(p, a, ls)
       IN  [active |-> c.active, ls |-> c.ls, log |-> c.log, res |-> "committed",
            suspended |-> FALSE, vcalled |-> FALSE]

\* Mutant: the tail of activate runs whatever the validation's outcome.
afterAwaitIgnoresRejection(p, resolved, a, ls) ==
  LET c == commit(p, a, ls)
  IN  [active |-> c.active, ls |-> c.ls, log |-> c.log, res |-> "committed"]

\* Mutant: the tail of activate gives way to a provider activated while the
\* call was suspended.
afterAwaitKeepsNewer(p, resolved, a, ls) ==
  IF resolved /\ ~Truthy(a)
  THEN LET c == commit(p, a, ls)
       IN  [active |-> c.active, ls |-> c.ls, log |-> c.log, res |-> "committed"]
  ELSE [active |-> a, ls |-> ls, log |-> <<>>,
        res |-> IF resolved THEN "committed" ELSE "rejected"]

\* activate after its await: the validation promise resolved or rejected.
afterAwait(p, resolved, a, ls) ==
  IF resolved
  THEN LET c == commit(p, a, ls)
       IN  [active |-> c.active, ls |-> c.ls, log |-> c.log, res |-> "committed"]
  ELSE [active |-> a, ls |-> ls, log |-> <<>>, res |-> "rejected"]

(***************************************************************************)
(* A suspended call is its provider and its age: the number of activate    *)
(* calls issued after it (0: it is the latest call, 1: the one before the  *)
(* latest, 2: older).                                                      *)
(***************************************************************************)
Min(a, b) == IF a < b THEN a ELSE b

Range(s) == {s[i] : i \in DOMAIN s}

Invoked(log) == {e[1] : e \in Range(log)}

aged(pend) == [i \in DOMAIN pend |-> [pend[i] EXCEPT !.age = Min(2, @ + 1)]]

RemoveAt(s, i) == SubSeq(s, 1, i - 1) \o SubSeq(s, i + 1, Len(s))

\* The part of a step that issues activate(p, hasValidation).
Issue(p, hasValidation) ==
  LET r == activate(p, hasValidation, activeProvider, listeners)
  IN  /\ Len(r.ls) <= MaxListeners
      /\ r.suspended => Len(pending) < MaxPending
      /\ activeProvider' = r.active
      /\ listeners' = r.ls
      /\ pending' = IF r.suspended
                    THEN Append(aged(pending), [provider |-> p, age |-> 0])
                    ELSE aged(pending)
      /\ notified' = r.log

NoIssue ==
  /\ UNCHANGED <<activeProvider, listeners, pending>>
  /\ notified' = <<>>

(***************************************************************************)
(* The operations.                                                         *)
(***************************************************************************)
Init ==
  /\ providers = {}
  /\ listeners = <<>>
  /\ initializing = {}
  /\ activeProvider = Undefined
  /\ pending = <<>>
  /\ handles = {}
  /\ unsubs = {}
  /\ notified = <<>>
  /\ last = [op |-> "init", arg |-> NoCall, res |-> "ok"]

\* Mutant: register checks the initializing set alone.
RegisterChecksInitializingOnly(type) ==
  IF type \in initializing
  THEN /\ last' = [op |-> "register", arg |-> type, res |-> "throw"]
       /\ NoIssue
       /\ UNCHANGED <<providers, initializing, handles, unsubs>>
  ELSE /\ initializing' = initializing \cup {type}
       /\ handles' = handles \cup {type}
       /\ last' = [op |-> "register", arg |-> type, res |-> "ok"]
       /\ NoIssue
       /\ UNCHANGED <<providers, unsubs>>

Register(type) ==
  IF type \in initializing \/ has(providers, type)
  THEN /\ last' = [op |-> "register", arg |-> type, res |-> "throw"]
       /\ NoIssue
       /\ UNCHANGED <<providers, initializing, handles, unsubs>>
  ELSE /\ initializing' = initializing \cup {type}
       /\ handles' = handles \cup {type}
       /\ last' = [op |-> "register", arg |-> type, res |-> "ok"]
       /\ NoIssue
       /\ UNCHANGED <<providers, unsubs>>

\* Mutant: setup activates the provider without storing it in the registry.
SetupWithoutStoring(type, provider, active, hasValidation) ==
  /\ type \in handles
  /\ providers' = providers
  /\ initializing' = initializing \ {type}
  /\ IF active
     THEN /\ Issue(provider, hasValidation)
          /\ last' = [op |-> "setup", arg |-> "active",
                      res |-> activate(provider, hasValidation,
                                       activeProvider, listeners).res]
     ELSE IF size(initializing') = 0 /\ ~Truthy(activeProvider)
     THEN /\ Issue(Null, FALSE)
          /\ last' = [op |-> "setup", arg |-> "inactive",
                      res |-> activate(Null, FALSE, activeProvider, listeners).res]
     ELSE /\ NoIssue
          /\ last' = [op |-> "setup", arg |-> "inactive", res |-> "none"]
  /\ UNCHANGED <<handles, unsubs>>

Setup(type, provider, active, hasValidation) ==
  /\ type \in handles
  /\ providers' = mapSet(providers, type, provider)
  /\ initializing' = initializing \ {type}
  /\ IF active
     THEN /\ Issue(provider, hasValidation)
          /\ last' = [op |-> "setup", arg |-> "active",
                      res |-> activate(provider, hasValidation,
                                       activeProvider, listeners).res]
     ELSE IF size(initializing') = 0 /\ ~Truthy(activeProvider)
     THEN /\ Issue(Null, FALSE)
          /\ last' = [op |-> "setup", arg |-> "inactive",
                      res |-> activate(Null, FALSE, activeProvider, listeners).res]
     ELSE /\ NoIssue
          /\ last' = [op |-> "setup", arg |-> "inactive", res |-> "none"]
  /\ UNCHANGED <<handles, unsubs>>

\* Mutant: clear settles to null whenever nothing is initializing, without
\* looking at the active provider.
ClearSettlesAlways(type) ==
  /\ type \in handles
  /\ initializing' = initializing \ {type}
  /\ providers' = mapDelete(providers, type)
  /\ IF size(initializing') = 0
     THEN /\ Issue(Null, FALSE)
          /\ last' = [op |-> "clear", arg |-> type,
                      res |-> activate(Null, FALSE, activeProvider, listeners).res]
     ELSE /\ NoIssue
          /\ last' = [op |-> "clear", arg |-> type, res |-> "none"]
  /\ UNCHANGED <<handles, unsubs>>

Clear(type) ==
  /\ type \in handles
  /\ initializing' = initializing \ {type}
  /\ providers' = mapDelete(providers, type)
  /\ IF size(initializing') = 0 /\ ~Truthy(activeProvider)
     THEN /\ Issue(Null, FALSE)
          /\ last' = [op |-> "clear", arg |-> type,
                      res |-> activate(Null, FALSE, activeProvider, listeners).res]
     ELSE /\ NoIssue
          /\ last' = [op |-> "clear", arg |-> type, res |-> "none"]
  /\ UNCHANGED <<handles, unsubs>>

Activate(provider, hasValidation) ==
  /\ Issue(provider, hasValidation)
  /\ last' = [op |-> "activate", arg |-> provider,
              res |-> activate(provider, hasValidation, activeProvider, listeners).res]
  /\ UNCHANGED <<providers, initializing, handles, unsubs>>

\* The validation promise of the i-th suspended call settles.
Settle(i, resolved) ==
  /\ i \in DOMAIN pending
  /\ LET call == pending[i]
         r == afterAwait(call.provider, resolved, activeProvider, listeners)
     IN  /\ Len(r.ls) <= MaxListeners
         /\ activeProvider' = r.active
         /\ listeners' = r.ls
         /\ notified' = r.log
         /\ pending' = RemoveAt(pending, i)
         /\ last' = [op |-> IF resolved THEN "resolve" ELSE "reject",
                     arg |-> call.provider, res |-> r.res]
  /\ UNCHANGED <<providers, initializing, handles, unsubs>>

ValidationResolves(i) == Settle(i, TRUE)

ValidationRejects(i) == Settle(i, FALSE)

Subscribe(dispatch) ==
  /\ Len(listeners) < MaxListeners
  /\ listeners' = subscribe(listeners, dispatch)
  /\ unsubs' = unsubs \cup {dispatch}
  /\ notified' = <<>>
  /\ last' = [op |-> "subscribe", arg |-> dispatch, res |-> "ok"]
  /\ UNCHANGED <<providers, initializing, activeProvider, pending, handles>>

Unsubscribe(dispatch) ==
  /\ dispatch \in unsubs
  /\ listeners' = unsubscribe(listeners, dispatch)
  /\ notified' = <<>>
  /\ last' = [op |-> "unsubscribe", arg |-> dispatch, res |-> "ok"]
  /\ UNCHANGED <<providers, initializing, activeProvider, pending, handles,
                 unsubs>>

\* Mutant: the trigger calls login() without checking what get returned.
useAuthLoginUnchecked(type) == "login"

\* The trigger returned by useAuthLogin(type): it throws when get(type) is
\* falsy and calls the provider's login() otherwise.
useAuthLogin(type) ==
  IF get(type) \notin AuthProviders THEN "throw" ELSE "login"

Login(type) ==
  /\ last' = [op |-> "login", arg |-> type, res |-> useAuthLogin(type)]
  /\ notified' = <<>>
  /\ UNCHANGED <<providers, listeners, initializing, activeProvider, pending,
                 handles, unsubs>>

\* Every operation of the manager, with plain listeners.
Next ==
  \/ \E t \in Types : Register(t)
  \/ \E t \in Types, p \in AuthProviders, a \in BOOLEAN, v \in BOOLEAN :
       Setup(t, p, a, v)
  \/ \E t \in Types : Clear(t)
  \/ \E p \in AuthProviders \cup {Null}, v \in BOOLEAN : Activate(p, v)
  \/ \E i \in 1..MaxPending : ValidationResolves(i)
  \/ \E i \in 1..MaxPending : ValidationRejects(i)
  \/ Subscribe(PlainCallback)
  \/ Unsubscribe(PlainCallback)

Spec == Init /\ [][Next]_vars

\* Activation and subscription alone, with listeners that subscribe from
\* inside a notification.
NextListeners ==
  \/ \E p \in AuthProviders \cup {Null}, v \in BOOLEAN : Activate(p, v)
  \/ \E i \in 1..MaxPending : ValidationResolves(i)
  \/ \E i \in 1..MaxPending : ValidationRejects(i)
  \/ \E cb \in Callbacks : Subscribe(cb)
  \/ \E cb \in Callbacks : Unsubscribe(cb)

SpecListeners == Init /\ [][NextListeners]_vars

\* Activation and subscription with a listener that unsubscribes itself
\* from inside a notification.
NextUnsubscribing ==
  \/ \E p \in AuthProviders \cup {Null}, v \in BOOLEAN : Activate(p, v)
  \/ \E i \in 1..MaxPending : ValidationResolves(i)
  \/ \E i \in 1..MaxPending : ValidationRejects(i)
  \/ \E cb \in UnsubscribingCallbacks : Subscribe(cb)
  \/ \E cb \in UnsubscribingCallbacks : Unsubscribe(cb)

SpecUnsubscribing == Init /\ [][NextUnsubscribing]_vars

\* Registration alone: the handles of register and the validations that
\* setup starts, with plain listeners attached.
NextRegistry ==
  \/ \E t \in Types : Register(t)
  \/ \E t \in Types, p \in AuthProviders, a \in BOOLEAN, v \in BOOLEAN :
       Setup(t, p, a, v)
  \/ \E t \in Types : Clear(t)
  \/ \E i \in 1..MaxPending : ValidationResolves(i)
  \/ \E i \in 1..MaxPending : ValidationRejects(i)
  \/ Subscribe(PlainCallback)
  \/ \E t \in Types : Login(t)

SpecRegistry == Init /\ [][NextRegistry]_vars

(***************************************************************************)
(* Properties.                                                             *)
(***************************************************************************)
Count(x, ls) == Cardinality({i \in 1..Len(ls) : ls[i] = x})

\* A step in which the initializing set empties through setup(_, false) or
\* through clear, with no provider active afterwards.
LastRegistrationSettles ==
  /\ initializing # {}
  /\ initializing' = {}
  /\ \/ last'.op = "setup" /\ last'.arg = "inactive"
     \/ last'.op = "clear"
  /\ ~Truthy(activeProvider')

\* What a dispatch of value p to the list ls delivers when no listener
\* changes the list: every entry once, in order, with p already assigned.
OneEach(ls, p) == [i \in 1..Len(ls) |-> <<ls[i], p, p>>]

\* C1: whatever register, setup and clear calls were made, with the handles
\* used in any order, the registry holds at most one provider per type key
\* and no type key is both in the initializing set and in the registry.
C1_RegistryKeysUnique ==
  /\ \A e1 \in providers, e2 \in providers : e1[1] = e2[1] => e1 = e2
  /\ \A t \in initializing : ~has(providers, t)

\* C1 witness: a setup has just run, leaving one type registered while
\* another is still initializing.
C1_Witness ==
  /\ last.op = "setup"
  /\ size(providers) = 1
  /\ initializing # {}

\* C2: when the validation of a suspended activate rejects, the call ends
\* rejected, the active provider and the subscriber list stay as they were
\* and no subscriber is invoked.
C2_RejectionChangesNothing ==
  [][last'.op = "reject" =>
       /\ last'.res = "rejected"
       /\ activeProvider' = activeProvider
       /\ listeners' = listeners
       /\ notified' = <<>>]_vars

\* C2 witness: a validation has just rejected for a provider other than the
\* active one, with a subscriber attached.
C2_Witness ==
  /\ last.op = "reject"
  /\ Truthy(activeProvider)
  /\ last.arg # activeProvider
  /\ listeners # <<>>

\* C3: activate(p) with p already the active provider (null included) returns
\* at once: validation is not invoked (no call is left suspended), the active
\* provider and the subscriber list are unchanged and nobody is notified.
C3_ReactivationIsNoOp ==
  [][(last'.op = "activate" /\ last'.arg = activeProvider) =>
       /\ last'.res = "noop"
       /\ activeProvider' = activeProvider
       /\ listeners' = listeners
       /\ pending' = aged(pending)
       /\ notified' = <<>>]_vars

\* C3 witness: activate(null) has just returned as a no-op on a manager
\* whose active provider is the committed null, with a subscriber attached.
C3_Witness ==
  /\ last.op = "activate"
  /\ last.arg = Null
  /\ last.res = "noop"
  /\ activeProvider = Null
  /\ listeners # <<>>

\* C4: two consecutive activate(p) calls with the same p notify each
\* subscriber at most once in total, also when the second call is issued
\* while the first is suspended: if the latest call was activate(p) and the
\* call issued just before it (age 1), for the same p, now passes its
\* validation, no subscriber the latest call notified is notified again.
C4_TwiceNotifiesOnce ==
  [][\A i \in DOMAIN pending :
       ( /\ last.op = "activate"
         /\ last.arg = pending[i].provider
         /\ pending[i].age = 1
         /\ last'.op = "resolve"
         /\ pending' = RemoveAt(pending, i) )
       => Invoked(notified) \cap Invoked(notified') = {}]_vars

\* C5: while the initializing set is non-empty getActive() is never null: it
\* is the active provider if there is one and undefined otherwise.
C5_UnresolvedWhileInitializing ==
  initializing # {} =>
    /\ getActive # Null
    /\ getActive = IF Truthy(activeProvider) THEN activeProvider ELSE Undefined

\* C5 witness: a registration is initializing after an earlier round already
\* settled the active provider to null, and a provider is registered.
C5_Witness ==
  /\ initializing # {}
  /\ activeProvider = Null
  /\ providers # {}

\* C6: once the last pending registration settles through setup(_, false) or
\* through clear with no provider active, getActive() is null.
C6_SettledIsNull ==
  [][LastRegistrationSettles => getActive' = Null]_vars

\* C7: each time the last pending registration settles with no provider
\* active and getActive() goes from undefined to null, every subscriber
\* attached before is notified exactly once, with null.
C7_SettleNotifiesOnce ==
  [][(LastRegistrationSettles /\ getActive = Undefined /\ getActive' = Null)
       => notified' = OneEach(listeners, Null)]_vars

\* C8: the unsubscribe function of a subscribed callback removes exactly one
\* entry of that callback and leaves every other entry in place, in order.
C8_UnsubscribeRemovesOne ==
  [][(last'.op = "unsubscribe" /\ Count(last'.arg, listeners) > 0) =>
       \E i \in 1..Len(listeners) :
         /\ listeners[i] = last'.arg
         /\ listeners' = RemoveAt(listeners, i)]_vars

\* C9: when an activate call commits (at once, or after its validation
\* resolved) and no listener of the list changes the list, the active
\* provider is assigned first and then every listener is invoked exactly
\* once, in subscription order, with the new active provider, all within the
\* one step; the list itself is left as it was.
C9_CommitNotifiesAllInOrder ==
  [][(last'.res = "committed" /\ Count(SubscribingCallback, listeners) = 0) =>
       /\ activeProvider' = last'.arg
       /\ notified' = OneEach(listeners, last'.arg)
       /\ listeners' = listeners]_vars

\* C9 witness: a suspended activate(A) has just committed after its
\* validation resolved, notifying two subscribers that leave the list alone.
C9_Witness ==
  /\ last.op = "resolve"
  /\ last.res = "committed"
  /\ Len(notified) = 2
  /\ Count(SubscribingCallback, listeners) = 0
  /\ activeProvider = last.arg

C11_UnsubscribeDuringDispatch ==
  [][last'.res = "committed" =>
       \A i \in 1..Len(listeners) :
         listeners[i] # UnsubscribingCallback =>
           /\ listeners[i] \in Invoked(notified')
           /\ Count(listeners[i], listeners') > 0]_vars

\* C12: the set-and-notify tail of an activate call is one step, so two
\* calls never interleave their mutations (every listener of a dispatch is
\* passed, and can read, the provider that this very step assigned), and
\* the call whose tail runs last wins: when the validation of a suspended
\* activate(A) resolves, A becomes the active provider whatever another
\* call committed meanwhile.
C12_LastTailWins ==
  [][last'.op = "resolve" =>
       /\ last'.res = "committed"
       /\ activeProvider' = last'.arg
       /\ Len(notified') = Len(listeners)
       /\ \A e \in Range(notified') : e[2] = last'.arg /\ e[3] = last'.arg]_vars

\* C12 witness: activate(B) has just committed and notified a subscriber
\* while an earlier call for another provider is still suspended at its
\* validation, whose resolution is the step C12 speaks of.
C12_Witness ==
  /\ last.op = "activate"
  /\ last.res = "committed"
  /\ Truthy(activeProvider)
  /\ notified # <<>>
  /\ \E i \in DOMAIN pending :
       pending[i].provider # activeProvider /\ pending[i].age >= 1

\* C13: register(type) throws exactly when type is initializing or
\* registered; a throwing call changes nothing and notifies nobody, a
\* successful call adds type to the initializing set and changes nothing
\* else.
C13_RegisterThrowsIffKnown ==
  [][last'.op = "register" =>
       /\ last'.res = "throw" <=>
            (last'.arg \in initializing \/ has(providers, last'.arg))
       /\ last'.res \in {"throw", "ok"}
       /\ initializing' = IF last'.res = "throw" THEN initializing
                          ELSE initializing \cup {last'.arg}
       /\ UNCHANGED <<providers, activeProvider, listeners, pending>>
       /\ notified' = <<>>]_vars

\* C13 witness: register has just thrown for a type that is registered and
\* not initializing, on a manager with an active provider and a subscriber.
C13_Witness ==
  /\ last.op = "register"
  /\ last.res = "throw"
  /\ has(providers, last.arg)
  /\ last.arg \notin initializing
  /\ Truthy(activeProvider)
  /\ listeners # <<>>

\* C14: getActive() is the active provider when one is set; with none set it
\* is undefined if a registration is initializing or the registry is empty,
\* and null otherwise.
C14_GetActiveCases ==
  /\ activeProvider \in AuthProviders => getActive = activeProvider
  /\ (activeProvider \notin AuthProviders
        /\ (initializing # {} \/ providers = {})) => getActive = Undefined
  /\ (activeProvider \notin AuthProviders
        /\ initializing = {} /\ providers # {}) => getActive = Null

\* C14 witness: null was committed as the active provider and the registry
\* is empty with nothing initializing, where getActive() is undefined.
C14_Witness ==
  /\ activeProvider = Null
  /\ providers = {}
  /\ initializing = {}
  /\ handles # {}
  /\ getActive = Undefined

\* The type that the last step's clear was called for is neither
\* initializing nor registered, and get finds nothing for it.
Cleared ==
  /\ last.arg \notin initializing
  /\ ~has(providers, last.arg)
  /\ get(last.arg) = Undefined

\* C15: after clear() on the handle of a type, the type is neither
\* initializing nor registered, get(type) is undefined, and a register(type)
\* that comes next succeeds and marks the type initializing.
C15_ClearUnregisters ==
  [][/\ last'.op = "clear" => Cleared'
     /\ (last.op = "clear" /\ last'.op = "register" /\ last'.arg = last.arg) =>
          (last'.res = "ok" /\ last.arg \in initializing')]_vars

\* C15 witness: clear has just run for a type, nothing is initializing and
\* the other type stays registered.
C15_Witness ==
  /\ last.op = "clear"
  /\ get(last.arg) = Undefined
  /\ last.arg \in handles
  /\ size(providers) = 1
  /\ initializing = {}

\* C16: the login trigger of a type fails with the provider-not-found error,
\* calling no login(), exactly when the registry has no entry for the type
\* (never registered, initializing or cleared), and in every case leaves
\* the registry, the initializing set, the active provider and the
\* subscriber list as they were, notifying nobody.
C16_LoginNeedsProvider ==
  [][last'.op = "login" =>
       /\ ~has(providers, last'.arg) => last'.res = "throw"
       /\ has(providers, last'.arg) => last'.res = "login"
       /\ UNCHANGED <<providers, initializing, activeProvider, listeners>>
       /\ notified' = <<>>]_vars

\* C16 witness: the trigger has just thrown for a type that is still
\* initializing while the other type is registered and active.
C16_Witness ==
  /\ last.op = "login"
  /\ last.res = "throw"
  /\ last.arg \in initializing
  /\ Truthy(activeProvider)
  /\ providers # {}

Registered(p) == \E e \in providers : e[2] = p

\* The active provider, and every provider whose activation awaits its
\* validation, is held in the registry.
ActiveAndPendingRegistered ==
  /\ Truthy(activeProvider) => Registered(activeProvider)
  /\ \A i \in DOMAIN pending : Registered(pending[i].provider)

\* A step other than a setup or clear called for a type that is no longer
\* initializing (a handle used again after it settled its registration).
HandleUsedOnce ==
  last'.op \in {"setup", "clear"} => initializing' # initializing

\* C17 as stated: in every state reached by register, setup, clear and the
\* activate calls they make, with handles used in any order and any number
\* of times, a non-null active provider is held in the registry.
C17_ActiveIsRegistered ==
  Truthy(activeProvider) => Registered(activeProvider)

\* C17 amended: while setup and clear are only called for a type that is
\* still initializing (each handle settles its registration once), every
\* step keeps the active provider, and every provider awaiting validation,
\* held in the registry.
C17_ActiveStaysRegistered ==
  [][(ActiveAndPendingRegistered /\ HandleUsedOnce)
       => ActiveAndPendingRegistered']_vars

\* C17 witness: the validation started by setup has just resolved and made
\* a provider active that the registry holds, with both types registered.
C17_Witness ==
  /\ last.op = "resolve"
  /\ Truthy(activeProvider)
  /\ Registered(activeProvider)
  /\ size(providers) = 2
  /\ initializing = {}

\* C18: once a provider is active, no register, setup or clear call, and no
\* validation settling in between, makes the active provider null or
\* undefined again: getActive() goes on returning a provider.
C18_ActiveNeverUnset ==
  [][(Truthy(activeProvider)
        /\ last'.op \in {"register", "setup", "clear", "resolve", "reject"})
       => (Truthy(activeProvider') /\ getActive' \in AuthProviders)]_vars

\* C18 witness: with a provider active, clear has just emptied the registry
\* and left nothing initializing, and did not settle to null.
C18_Witness ==
  /\ last.op = "clear"
  /\ last.res = "none"
  /\ Truthy(activeProvider)
  /\ initializing = {}
  /\ providers = {}

\* C19: getActive() is null only in states where a notification carrying
\* null has already been dispatched. Null is dispatched only by the step
\* that assigns null to activeProvider, and activeProvider is never
\* undefined again once assigned, so with getActive() null (no provider
\* active) a null dispatch has happened exactly when activeProvider is null.
C19_NullOnlyAfterNotification ==
  getActive = Null => activeProvider = Null

====
